---- MODULE Spec2Model ----
(***************************************************************************)
(* A model of ora-core: the note store (src/src/domain.rs) and the         *)
(* watch -> debounce -> dispatch -> index pipeline (src/src/watcher/).     *)
(*                                                                         *)
(* Strings and paths are sequences of one-character strings, so that the   *)
(* title, slug and file-name functions are computed character by           *)
(* character, as the Rust code computes them.                              *)
(***************************************************************************)
EXTENDS Integers, Sequences, FiniteSets, TLC

VARIABLES
    disk,           \* the shelf directory tree: file path -> content, for the files that exist
    notes,          \* the LocalNote values the caller holds: returned by create, not deleted
    input,          \* the (title, content) arguments of the pure-function specification
    save_op,        \* the save in progress (write_atomic), or its outcome
    index,          \* the notes table of .shelf.db: path -> [title, content]
    svc,            \* the WatcherService: "none", "created" (create returned) or "running"
    watcher,        \* WatcherService.watcher is Some: the OS watcher forwards events
    raw_q,          \* the raw channel, watcher callback -> Debouncer::run
    active_timers,  \* Debouncer.active_timers: path -> the timer its cancel sender reaches
    timers,         \* the timer threads spawned so far, in spawn order
    debounced_q,    \* the debounced channel, timer threads -> dispatch loop
    last_call,      \* the last handler call of the dispatch loop and what it returned
    life,           \* WatcherService's thread handles, the two threads, and the call in progress
    scan,           \* the backfill scan of Index::new: what is left to visit and how it ended
    history         \* the calls made directly on the Index and the ShelfManager, in order

store_vars == <<disk, notes, input, save_op>>
pipe_vars == <<index, svc, watcher, raw_q, active_timers, timers, debounced_q, last_call,
               life, scan>>

vars == <<disk, notes, input, save_op,
          index, svc, watcher, raw_q, active_timers, timers, debounced_q, last_call,
          life, scan, history>>

(***************************************************************************)
(* Bounds.                                                                 *)
(***************************************************************************)
MaxTitleLen == 2
MaxContentLen == 2
MaxNotes == 2
MaxCopies == 3
MaxEvents == 3

(***************************************************************************)
(* Characters and strings.                                                 *)
(***************************************************************************)
NL == "\n"

TitleChars == {"A", "a", " ", "-", "_", "!", ":", "#"}
ContentChars == {"x", "#", NL}

RECURSIVE SeqsUpTo(_, _)
SeqsUpTo(S, n) ==
    IF n = 0 THEN {<<>>}
    ELSE LET shorter == SeqsUpTo(S, n - 1)
         IN  shorter \cup {Append(s, c) : s \in {t \in shorter : Len(t) = n - 1}, c \in S}

Titles == SeqsUpTo(TitleChars, MaxTitleLen)
Contents == SeqsUpTo(ContentChars, MaxContentLen)
\* The titles and contents the stateful store specification draws from: a blank
\* title, two titles with one slug, a title with an empty slug; a plain content
\* and one that starts with a heading.
StoreTitles == {<<>>, <<"A">>, <<"a">>, <<"!">>}
StoreContents == {<<"x">>, <<"#", "A">>}

\* char::is_alphanumeric and char::to_lowercase on the ASCII letters and digits
Uppercase == <<"A", "B", "C", "D", "E", "F", "G", "H", "I", "J", "K", "L", "M", "N",
              "O", "P", "Q", "R", "S", "T", "U", "V", "W", "X", "Y", "Z">>
Lowercase == <<"a", "b", "c", "d", "e", "f", "g", "h", "i", "j", "k", "l", "m", "n",
              "o", "p", "q", "r", "s", "t", "u", "v", "w", "x", "y", "z">>
Digits == {"0", "1", "2", "3", "4", "5", "6", "7", "8", "9"}
Range(f) == {f[i] : i \in DOMAIN f}

is_alphanumeric(c) == c \in Range(Uppercase) \cup Range(Lowercase) \cup Digits
to_lowercase(c) ==
    IF c \in Range(Uppercase) THEN Lowercase[CHOOSE i \in DOMAIN Uppercase : Uppercase[i] = c]
    ELSE c

Untitled == <<"U", "n", "t", "i", "t", "l", "e", "d">>
DotMd == <<".", "m", "d">>

\* Iterator::skip_while and the trimming loops, for a predicate given as the
\* set of the characters it accepts.
RECURSIVE skip_while(_, _)
skip_while(s, S) ==
    IF s # <<>> /\ Head(s) \in S THEN skip_while(Tail(s), S) ELSE s

RECURSIVE trim_end_while(_, _)
trim_end_while(s, S) ==
    IF s # <<>> /\ s[Len(s)] \in S THEN trim_end_while(SubSeq(s, 1, Len(s) - 1), S) ELSE s

Whitespace == {" ", NL}

\* str::trim_end and str::trim
trim_end(s) == trim_end_while(s, Whitespace)
trim(s) == trim_end(skip_while(s, Whitespace))

\* str::trim_matches('_')
trim_underscores(s) == trim_end_while(skip_while(s, {"_"}), {"_"})

\* str::lines().next(): None (here NoLine) for the empty string, else the
\* text before the first line break.
NoLine == <<"\n">>
RECURSIVE until_newline(_)
until_newline(s) ==
    IF s = <<>> \/ Head(s) = NL THEN <<>> ELSE <<Head(s)>> \o until_newline(Tail(s))
first_line(s) == IF s = <<>> THEN NoLine ELSE until_newline(s)

\* str::starts_with(char)
starts_with(s, c) == s # <<>> /\ Head(s) = c

\* format!("{}", count) for a usize
Digit(d) == CASE d = 0 -> "0" [] d = 1 -> "1" [] d = 2 -> "2" [] d = 3 -> "3"
              [] d = 4 -> "4" [] d = 5 -> "5" [] d = 6 -> "6" [] d = 7 -> "7"
              [] d = 8 -> "8" [] d = 9 -> "9"
RECURSIVE to_string(_)
to_string(n) == IF n < 10 THEN <<Digit(n)>> ELSE to_string(n \div 10) \o <<Digit(n % 10)>>

(***************************************************************************)
(* domain.rs: the title, slug and file-name functions.                     *)
(***************************************************************************)
forbidden == {"/", "\\", ":", "\"", "*", "?", "<", ">", "|"}

\* .map(|c| if forbidden.contains(&c) { '_' } else { c })
map_forbidden(s) == [i \in 1..Len(s) |-> IF s[i] \in forbidden THEN "_" ELSE s[i]]

\* `stripped` is bound as a value before it is mapped, which keeps TLC from
\* re-evaluating it at every character.
sanitize_title(content) ==
    LET line == first_line(content)
    IN  IF line = NoLine THEN Untitled
        ELSE LET stripped == skip_while(skip_while(line, {"#"}), Whitespace)
                 title == CHOOSE t \in {trim_end(map_forbidden(s)) : s \in {stripped}} : TRUE
             IN  IF title = <<>> THEN Untitled ELSE title

slug_char(c) ==
    LET l == to_lowercase(c)
    IN  IF is_alphanumeric(l) THEN <<l>>
        ELSE IF l \in Whitespace \/ l = "-" THEN <<"_">>
        ELSE IF l = "_" THEN <<l>>
        ELSE <<>>

RECURSIVE slug_chars(_)
slug_chars(s) == IF s = <<>> THEN <<>> ELSE slug_char(Head(s)) \o slug_chars(Tail(s))

slugify_title(title) == trim_underscores(slug_chars(title))

\* Path::join, Path::parent and Path::file_name on "/"-separated paths
join(dir, name) == dir \o <<"/">> \o name

\* The position of the last `c` among the first n elements of s, 0 when absent
RECURSIVE last_at(_, _, _)
last_at(s, c, n) ==
    IF n = 0 THEN 0
    ELSE IF s[n] = c THEN n
    ELSE last_at(s, c, n - 1)

last_slash(path) == last_at(path, "/", Len(path))

parent(path) == SubSeq(path, 1, last_slash(path) - 1)
file_name(path) == SubSeq(path, last_slash(path) + 1, Len(path))

\* The candidate file name the loop of is_unique tries at `count`
candidate(base, dir, count) ==
    IF count = 0 THEN join(dir, base \o DotMd)
    ELSE join(dir, base \o <<"_">> \o to_string(count) \o DotMd)

RECURSIVE probe(_, _, _, _)
probe(base, dir, dsk, count) ==
    IF candidate(base, dir, count) \notin DOMAIN dsk THEN candidate(base, dir, count)
    ELSE probe(base, dir, dsk, count + 1)

\* A plausible slip: the first candidate is returned without the existence probe.
is_unique_unprobed(base, dir, dsk) == candidate(base, dir, 0)

\* is_unique(base, dir): the first candidate path that does not exist on `dsk`
is_unique(base, dir, dsk) == probe(base, dir, dsk, 0)

(***************************************************************************)
(* domain.rs: LocalNote.                                                   *)
(***************************************************************************)
LocalNote(title, content, path) == [title |-> title, content |-> content, path |-> path]

full_content(title, content) ==
    IF starts_with(content, "#") THEN content
    ELSE <<"#", " ">> \o trim(title) \o <<NL, NL>> \o content

\* The note LocalNote::create(title, content, path) returns on the disk `dsk`.
create(title, content, path, dsk) ==
    LET full == full_content(title, content)
        note_title == sanitize_title(full)
    IN  LocalNote(note_title, full, is_unique(slugify_title(note_title), path, dsk))

\* fs::write / rename onto `path`, and fs::remove_file
write_file(dsk, path, data) ==
    [q \in DOMAIN dsk \cup {path} |-> IF q = path THEN data ELSE dsk[q]]
remove_file(dsk, path) == [q \in DOMAIN dsk \ {path} |-> dsk[q]]

\* LocalNote::open / reload: Err (here NoNote) when the file cannot be read
NoNote == [title |-> <<>>, content |-> <<>>, path |-> <<>>]
open(path, dsk) ==
    IF path \in DOMAIN dsk THEN LocalNote(sanitize_title(dsk[path]), dsk[path], path)
    ELSE NoNote

with_content(note, new_content) == LocalNote(note.title, new_content, note.path)

\* str::lines(): the text between line breaks; a final line break ends the
\* last line and starts no empty one.
RECURSIVE lines(_)
lines(s) ==
    IF s = <<>> THEN <<>>
    ELSE <<until_newline(s)>> \o lines(SubSeq(s, Len(until_newline(s)) + 2, Len(s)))

\* The loop of with_title: each line after the first, a line break before it
RECURSIVE push_lines(_)
push_lines(ls) == IF ls = <<>> THEN <<>> ELSE <<NL>> \o Head(ls) \o push_lines(Tail(ls))

\* note.with_title(new_title) on the disk `dsk`: the first line is replaced by
\* the heading of the new title, and the path is a free name for its slug.
with_title(note, new_title, dsk) ==
    LET ls == lines(note.content)
        new_content == <<"#", " ">> \o new_title \o push_lines(IF ls = <<>> THEN ls ELSE Tail(ls))
        title == sanitize_title(new_content)
    IN  LocalNote(title, new_content, is_unique(slugify_title(title), parent(note.path), dsk))

(***************************************************************************)
(* domain.rs: write_atomic, the body of LocalNote::save.                   *)
(***************************************************************************)
TmpPrefix == <<".", "t", "m", "p">>

RECURSIVE fresh_tmp(_, _, _)
fresh_tmp(dir, dsk, n) ==
    IF join(dir, TmpPrefix \o to_string(n)) \notin DOMAIN dsk
    THEN join(dir, TmpPrefix \o to_string(n))
    ELSE fresh_tmp(dir, dsk, n + 1)

\* A plausible slip: the bytes are written in place, into the target itself.
tmp_in_place(path, dsk) == path

\* NamedTempFile::new_in(dir): the path of a new file in the target's directory
new_tmp(path, dsk) == fresh_tmp(parent(path), dsk, 0)

(***************************************************************************)
(* The note store's operations.                                            *)
(***************************************************************************)
ShelfDir == <<"s">>
EmptyDir == [q \in {} |-> <<>>]
NoSave == [pc |-> "idle"]
NoInput == [title |-> <<>>, content |-> <<>>]
NoCall == [kind |-> "none"]

\* WatcherService as create returns it: no thread handle, no thread, no call
\* of run or shutdown yet.
NoLife == [debouncer_thread |-> FALSE, handler_thread |-> FALSE,
           deb |-> "none", disp |-> "none",
           pc |-> "idle", pending |-> {}, runs |-> 0, errs |-> 0, handling |-> <<>>,
           last |-> [op |-> "none", result |-> "none", noop |-> FALSE]]

\* No backfill scan has been started.
NoScan == [pc |-> "none"]

\* No index and no watcher service: the note store on its own.
NoPipeline ==
    /\ index = EmptyDir
    /\ svc = "none"
    /\ watcher = FALSE
    /\ raw_q = <<>>
    /\ active_timers = EmptyDir
    /\ timers = <<>>
    /\ debounced_q = <<>>
    /\ last_call = NoCall
    /\ life = NoLife
    /\ scan = NoScan

Idle == save_op.pc \notin {"writing", "crashed"}

\* LocalNote::create, the whole call: the free name is probed and the file written.
Create(title, content) ==
    /\ Idle
    /\ LET note == create(title, content, ShelfDir, disk)
       IN  /\ disk' = write_file(disk, note.path, note.content)
           /\ notes' = notes \cup {note}
    /\ save_op' = NoSave
    /\ UNCHANGED <<input, pipe_vars, history>>

StoreCreate ==
    /\ Cardinality(DOMAIN disk) < MaxNotes
    /\ \E title \in StoreTitles, content \in StoreContents : Create(title, content)

\* LocalNote::delete on a note the caller holds
Delete ==
    /\ Idle
    /\ \E note \in notes :
          /\ disk' = remove_file(disk, note.path)
          /\ notes' = notes \ {note}
    /\ save_op' = NoSave
    /\ UNCHANGED <<input, pipe_vars, history>>

\* note.with_content(c).save() begins: write_atomic creates its temporary file.
SaveBegin ==
    /\ Idle
    /\ Cardinality(DOMAIN disk) <= MaxNotes
    /\ \E held \in notes, c \in StoreContents :
          LET note == with_content(held, c)
              tmp == new_tmp(note.path, disk)
          IN  /\ save_op' = [pc |-> "writing", held |-> held, path |-> note.path,
                             old |-> disk[note.path], new |-> note.content, tmp |-> tmp]
              /\ disk' = write_file(disk, tmp, <<>>)
    /\ UNCHANGED <<notes, input, pipe_vars, history>>

\* tmp.write_all(data): one write call stores some more of the bytes.
SaveWrite ==
    /\ save_op.pc = "writing"
    /\ \E k \in (Len(disk[save_op.tmp]) + 1)..Len(save_op.new) :
          disk' = write_file(disk, save_op.tmp, SubSeq(save_op.new, 1, k))
    /\ UNCHANGED <<notes, input, save_op, pipe_vars, history>>

\* tmp.persist(path): the temporary file is renamed onto the target.
SavePersist ==
    /\ save_op.pc = "writing"
    /\ disk[save_op.tmp] = save_op.new
    /\ disk' = write_file(remove_file(disk, save_op.tmp), save_op.path, disk[save_op.tmp])
    /\ notes' = (notes \ {save_op.held}) \cup {with_content(save_op.held, save_op.new)}
    /\ save_op' = [save_op EXCEPT !.pc = "done"]
    /\ UNCHANGED <<input, pipe_vars, history>>

\* write_all or persist returns an error: the NamedTempFile is dropped, which
\* removes the temporary file, and save returns Err(Io).
SaveFail ==
    /\ save_op.pc = "writing"
    /\ disk' = remove_file(disk, save_op.tmp)
    /\ save_op' = [save_op EXCEPT !.pc = "failed"]
    /\ UNCHANGED <<notes, input, pipe_vars, history>>

\* The process dies during save: nothing is cleaned up and the notes it held
\* in memory are gone.
Crash ==
    /\ save_op.pc = "writing"
    /\ notes' = {}
    /\ save_op' = [save_op EXCEPT !.pc = "crashed"]
    /\ UNCHANGED <<disk, input, pipe_vars, history>>

StoreInit ==
    /\ disk = EmptyDir
    /\ notes = {}
    /\ input = NoInput
    /\ save_op = NoSave
    /\ NoPipeline
    /\ history = <<>>

StoreNext ==
    \/ StoreCreate
    \/ Delete
    \/ SaveBegin
    \/ SaveWrite
    \/ SavePersist
    \/ SaveFail
    \/ Crash

StoreSpec == StoreInit /\ [][StoreNext]_vars

(***************************************************************************)
(* The pure-function specification: one (title, content) pair, drawn at    *)
(* the start, is created repeatedly in an initially empty directory.       *)
(***************************************************************************)
FnCreate ==
    /\ Cardinality(notes) < MaxCopies
    /\ Create(input.title, input.content)

FnInit ==
    /\ disk = EmptyDir
    /\ notes = {}
    /\ input \in [title : Titles, content : Contents]
    /\ save_op = NoSave
    /\ NoPipeline
    /\ history = <<>>

FnNext == FnCreate

FnSpec == FnInit /\ [][FnNext]_vars

(***************************************************************************)
(* watcher/handler.rs and watcher/index.rs: the index port and the         *)
(* handler of debounced events.                                            *)
(***************************************************************************)
\* The paths of the watched shelf: a note and a note in a subdirectory; a
\* hidden Markdown file and a file of another type.
NotePaths == {
    <<"s", "/", "a", ".", "m", "d">>,
    <<"s", "/", "d", "/", "b", ".", "m", "d">> }
OtherPaths == {
    <<"s", "/", ".", "h", ".", "m", "d">>,
    <<"s", "/", "c", ".", "t", "x", "t">> }
WatchPaths == NotePaths \cup OtherPaths

\* What is written to the files of the shelf: a note is left empty
\* (File::create) or given a headed text; the other files, whose content
\* nothing reads, are given one text.
FileContents == {<<>>, <<"#", "A">>}
Writes(path) == IF path \in NotePaths THEN FileContents ELSE {<<"#", "A">>}

last_dot(name) == last_at(name, ".", Len(name))

\* Path::extension: None (here NoExt) when the file name has no '.', or only
\* a leading one; else the text after the last '.'.
NoExt == <<"/">>
extension(path) ==
    LET name == file_name(path)
    IN  IF last_dot(name) <= 1 THEN NoExt ELSE SubSeq(name, last_dot(name) + 1, Len(name))

Md == <<"m", "d">>

\* A plausible slip: the extension alone decides, hidden files pass.
is_md_extension_only(path) == extension(path) = Md

is_markdown_file(path) == extension(path) = Md /\ ~starts_with(file_name(path), ".")

\* The filter of the backfill scan, written out a second time in index.rs
scan_accepts(path) ==
    /\ extension(path) # NoExt
    /\ extension(path) = Md /\ ~starts_with(file_name(path), ".")

IndexedNote(note) == [title |-> note.title, content |-> note.content]

\* Path::display().to_string(), the key of a row of the notes table: a byte of
\* the path that is not valid UTF-8 (here "<FE>", "<FF>", each one element of
\* the sequence) comes out as U+FFFD; a path that is valid UTF-8 comes out
\* as it is.
InvalidBytes == {"<FE>", "<FF>"}
Replacement == "<FFFD>"
display(path) ==
    IF \A i \in 1..Len(path) : path[i] \notin InvalidBytes THEN path
    ELSE [i \in 1..Len(path) |-> IF path[i] \in InvalidBytes THEN Replacement ELSE path[i]]

\* Index::index_note (INSERT OR REPLACE on the UNIQUE column path), remove_note
\* (DELETE), exists, get_by_path: each binds path.display().to_string().
index_note(idx, note) == (display(note.path) :> IndexedNote(note)) @@ idx
remove_note(idx, path) == [q \in DOMAIN idx \ {display(path)} |-> idx[q]]
exists(idx, path) == display(path) \in DOMAIN idx
NoEntry == [title |-> <<>>, content |-> <<"/">>]
get_by_path(idx, path) == IF display(path) \in DOMAIN idx THEN idx[display(path)] ELSE NoEntry

\* Index::index_existing_files: every file below the shelf, at any depth, that
\* the scan's filter accepts and the index does not hold yet is opened and
\* indexed.
index_existing_files(idx, dsk) ==
    LET found == {q \in DOMAIN dsk : scan_accepts(q) /\ ~exists(idx, q)}
    IN  [q \in DOMAIN idx \cup found |-> IF q \in found THEN IndexedNote(open(q, dsk)) ELSE idx[q]]

\* What a handler call leaves: the index, the Result it returns and the index
\* port calls it made.
Handled(idx, ports) == [index |-> idx, result |-> "Ok", ports |-> ports]

\* A plausible slip: a file that cannot be opened makes handle_create fail.
handle_create_strict(path, idx, dsk) ==
    IF ~is_markdown_file(path) THEN Handled(idx, <<>>)
    ELSE IF exists(idx, path) THEN Handled(idx, <<"exists">>)
    ELSE IF path \in DOMAIN dsk
         THEN Handled(index_note(idx, open(path, dsk)), <<"exists", "index_note">>)
         ELSE [index |-> idx, result |-> "Err", ports |-> <<"exists">>]

\* A plausible slip: handle_create without its already-indexed guard.
handle_create_unguarded(path, idx, dsk) ==
    IF ~is_markdown_file(path) THEN Handled(idx, <<>>)
    ELSE IF path \in DOMAIN dsk
         THEN Handled(index_note(idx, open(path, dsk)), <<"index_note">>)
         ELSE Handled(idx, <<>>)

handle_create(path, idx, dsk) ==
    IF ~is_markdown_file(path) THEN Handled(idx, <<>>)
    ELSE IF exists(idx, path) THEN Handled(idx, <<"exists">>)
    ELSE IF path \in DOMAIN dsk
         THEN Handled(index_note(idx, open(path, dsk)), <<"exists", "index_note">>)
         ELSE Handled(idx, <<"exists">>)

\* A plausible slip: a file that cannot be opened is reported, not removed.
handle_modify_strict(path, idx, dsk) ==
    IF ~is_markdown_file(path) THEN Handled(idx, <<>>)
    ELSE IF path \in DOMAIN dsk
         THEN Handled(index_note(idx, open(path, dsk)), <<"index_note">>)
         ELSE [index |-> idx, result |-> "Err", ports |-> <<>>]

handle_modify(path, idx, dsk) ==
    IF ~is_markdown_file(path) THEN Handled(idx, <<>>)
    ELSE IF path \in DOMAIN dsk
         THEN Handled(index_note(idx, open(path, dsk)), <<"index_note">>)
         ELSE Handled(remove_note(idx, path), <<"remove_note">>)

\* A plausible slip: the entry is removed only once the file is gone.
handle_remove_if_gone(path, idx, dsk) ==
    IF ~is_markdown_file(path) THEN Handled(idx, <<>>)
    ELSE IF path \in DOMAIN dsk THEN Handled(idx, <<>>)
    ELSE Handled(remove_note(idx, path), <<"remove_note">>)

handle_remove(path, idx, dsk) ==
    IF ~is_markdown_file(path) THEN Handled(idx, <<>>)
    ELSE Handled(remove_note(idx, path), <<"remove_note">>)

\* notify::EventKind, as far as the code matches on it: the variant of a kind.
\* "Create", "Modify" and "Remove" stand for Create(_), Modify(Data(_)) and
\* Remove(_); the other kinds of Modify are a change of metadata only and a
\* rename; "Access", "Any" and "Other" are the variants left.
EventKinds == {"Any", "Access", "Create", "Modify", "Modify(Metadata)", "Modify(Name)",
               "Remove", "Other"}
variant(kind) == IF kind \in {"Modify(Metadata)", "Modify(Name)"} THEN "Modify" ELSE kind

\* The handler the match of the dispatch loop calls for a kind
handler_of(kind) ==
    CASE variant(kind) = "Create" -> "handle_create"
      [] variant(kind) = "Modify" -> "handle_modify"
      [] variant(kind) = "Remove" -> "handle_remove"
      [] OTHER -> "none"

\* The match of the dispatch loop in WatcherService::run
dispatch(kind, path, idx, dsk) ==
    CASE handler_of(kind) = "handle_create" -> handle_create(path, idx, dsk)
      [] handler_of(kind) = "handle_modify" -> handle_modify(path, idx, dsk)
      [] handler_of(kind) = "handle_remove" -> handle_remove(path, idx, dsk)
      [] OTHER -> Handled(idx, <<>>)

(***************************************************************************)
(* watcher/debounce.rs: the timers of the debouncer.                       *)
(***************************************************************************)
\* A timer thread: the event it will send, whether it is still in
\* recv_timeout ("waiting"), has received its cancellation ("cancelled") or
\* has timed out and sent its event ("fired"), and whether the timer it
\* replaced was still waiting when its event arrived.
Timer(kind, path, early) == [kind |-> kind, path |-> path, state |-> "waiting", early |-> early]

\* A plausible slip: the previous timer of the path is not cancelled.
cancel_forgotten(tms, path, active) == tms

\* ec.send(()) to the timer active_timers holds for the path: it ends a timer
\* that is still waiting and is lost on one that has ended.
cancel(tms, path, active) ==
    IF path \in DOMAIN active /\ tms[active[path]].state = "waiting"
    THEN [tms EXCEPT ![active[path]].state = "cancelled"]
    ELSE tms

Waiting(path) == path \in DOMAIN active_timers /\ timers[active_timers[path]].state = "waiting"

\* What ec.send(()) returns: Ok while the timer is in recv_timeout, Err once
\* the timer thread has ended and dropped its receiver; "none" when
\* active_timers holds no sender for the path and nothing is sent.
send_cancel(tms, path, active) ==
    IF path \notin DOMAIN active THEN "none"
    ELSE IF tms[active[path]].state = "waiting" THEN "Ok"
    ELSE "Err"

\* A plausible slip: ec.send(()).unwrap(), which panics the debouncer thread.
after_cancel_unwrap(result) == IF result = "Err" THEN "panicked" ELSE "running"

\* let _ = ec.send(()): the result is dropped, and a send on an unbounded
\* channel does not block; the loop goes on.
after_cancel(result) == "running"

\* A plausible slip: the timer thread sleeps and never looks at its channel.
may_fire_cancelled(timer) == timer.state \in {"waiting", "cancelled"}

\* c_rx.recv_timeout(dur) returns Err(Timeout) only in a timer that has
\* received no cancellation and lost no sender.
may_fire(timer) == timer.state = "waiting"

\* A plausible slip: the timer thread loops, and waits for the next timeout.
after_fire_rearmed(state) == "waiting"

\* The closure of the timer thread returns after its one recv_timeout, with
\* or without a send: the thread has ended.
after_fire(state) == "fired"

(***************************************************************************)
(* The pipeline's operations.                                              *)
(***************************************************************************)
store_idle == <<notes, input, save_op>>

\* WatcherService::create: Index::new with its backfill scan
ServiceCreate ==
    /\ svc = "none"
    /\ index' = index_existing_files(index, disk)
    /\ svc' = "created"
    /\ UNCHANGED <<disk, watcher, raw_q, active_timers, timers, debounced_q, last_call, store_idle, life, scan, history>>

\* The end of WatcherService::run: both threads are spawned, their handles
\* stored, and Ok returned.
spawn_threads(l) ==
    [l EXCEPT !.debouncer_thread = TRUE, !.handler_thread = TRUE,
              !.deb = "running", !.disp = "running", !.runs = @ + 1,
              !.last = [op |-> "run", result |-> "Ok", noop |-> FALSE]]

\* WatcherService::run: the OS watcher, the debouncer thread and the dispatch
\* thread are started.
Run ==
    /\ svc = "created"
    /\ life.pc = "idle"
    /\ svc' = "running"
    /\ watcher' = TRUE
    /\ life' = spawn_threads(life)
    /\ UNCHANGED <<disk, index, raw_q, active_timers, timers, debounced_q, last_call, store_idle, scan, history>>

\* The callback of setup_file_watcher: a Create, Modify or Remove event is
\* sent to the raw channel while the watcher lives.
forward(kind, path) ==
    IF watcher THEN Append(raw_q, [kind |-> kind, path |-> path]) ELSE raw_q

Events == Len(timers) + Len(raw_q)

\* A file appears in the watched shelf (created empty, or linked in whole).
FsCreate ==
    /\ svc = "running"
    /\ Events < MaxEvents
    /\ \E path \in WatchPaths \ DOMAIN disk : \E c \in Writes(path) :
          /\ disk' = write_file(disk, path, c)
          /\ raw_q' = forward("Create", path)
    /\ UNCHANGED <<index, svc, watcher, active_timers, timers, debounced_q, last_call, store_idle, life, scan, history>>

\* A file of the watched shelf is written or touched.
FsWrite ==
    /\ svc = "running"
    /\ Events < MaxEvents
    /\ \E path \in WatchPaths \cap DOMAIN disk : \E c \in Writes(path) :
          /\ disk' = write_file(disk, path, c)
          /\ raw_q' = forward("Modify", path)
    /\ UNCHANGED <<index, svc, watcher, active_timers, timers, debounced_q, last_call, store_idle, life, scan, history>>

\* A file of the watched shelf is deleted.
FsRemove ==
    /\ svc = "running"
    /\ Events < MaxEvents
    /\ \E path \in WatchPaths \cap DOMAIN disk :
          /\ disk' = remove_file(disk, path)
          /\ raw_q' = forward("Remove", path)
    /\ UNCHANGED <<index, svc, watcher, active_timers, timers, debounced_q, last_call, store_idle, life, scan, history>>

\* One turn of the loop of Debouncer::run: the next raw event is received, the
\* path's previous timer is sent its cancellation, and a new timer thread is
\* spawned and registered for the path.
DebouncerRecv ==
    /\ svc = "running"
    /\ life.deb = "running"
    /\ raw_q # <<>>
    /\ LET ev == Head(raw_q)
       IN  /\ timers' = Append(cancel(timers, ev.path, active_timers),
                               Timer(ev.kind, ev.path, Waiting(ev.path)))
           /\ active_timers' = [q \in DOMAIN active_timers \cup {ev.path} |->
                                   IF q = ev.path THEN Len(timers) + 1 ELSE active_timers[q]]
           /\ life' = [life EXCEPT
                          !.deb = after_cancel(send_cancel(timers, ev.path, active_timers))]
    /\ raw_q' = Tail(raw_q)
    /\ UNCHANGED <<disk, index, svc, watcher, debounced_q, last_call, store_idle, scan, history>>

\* A timer thread's recv_timeout ends with Timeout: it sends its event to the
\* debounced channel and ends.
TimerFire ==
    /\ \E i \in 1..Len(timers) :
          /\ may_fire(timers[i])
          /\ timers' = [timers EXCEPT ![i].state = after_fire(@)]
          /\ debounced_q' = Append(debounced_q, [kind |-> timers[i].kind, path |-> timers[i].path])
    /\ UNCHANGED <<disk, index, svc, watcher, raw_q, active_timers, last_call, store_idle, life, scan, history>>

\* One turn of the dispatch loop: the next debounced event is received and
\* handled; an Err is printed and the loop goes on.
Dispatch ==
    /\ svc = "running"
    /\ life.disp = "running"
    /\ debounced_q # <<>>
    /\ LET ev == Head(debounced_q)
           done == dispatch(ev.kind, ev.path, index, disk)
       IN  /\ index' = done.index
           /\ last_call' = [kind |-> ev.kind, path |-> ev.path, result |-> done.result,
                            ports |-> done.ports, had |-> exists(index, ev.path),
                            changed |-> done.index # index]
    /\ debounced_q' = Tail(debounced_q)
    /\ UNCHANGED <<disk, svc, watcher, raw_q, active_timers, timers, store_idle, life, scan, history>>

\* The shelf before the service is created: it is empty, or every watched path
\* holds a headed note; the index database is new.
Init ==
    /\ disk \in {[q \in S |-> <<"#", "A">>] : S \in {{}, WatchPaths}}
    /\ notes = {}
    /\ input = NoInput
    /\ save_op = NoSave
    /\ NoPipeline
    /\ history = <<>>

Next ==
    \/ ServiceCreate
    \/ Run
    \/ FsCreate
    \/ FsWrite
    \/ FsRemove
    \/ DebouncerRecv
    \/ TimerFire
    \/ Dispatch

Spec == Init /\ [][Next]_vars

(***************************************************************************)
(* watcher/service.rs: the life of the service. run may fail or be called  *)
(* again, shutdown stops the watcher and joins the two threads, and the    *)
(* threads end when their channels close.                                  *)
(***************************************************************************)
MaxLifeEvents == 2
MaxRuns == 2

\* A plausible slip: the watcher is kept while the threads are joined.
keep_watcher(w) == w

\* self.watcher.take(): the RecommendedWatcher is dropped, and with it the
\* callback that holds the sender of the raw channel.
take_watcher(w) == FALSE

\* A plausible slip: the timer threads outlive the debouncer that spawned them.
teardown_detached(tms, active) == tms

\* The Debouncer is dropped at the end of its thread: the cancel senders in
\* active_timers go, and every timer still in recv_timeout gets Disconnected
\* instead of Timeout, so it ends without sending its event.
teardown(tms, active) ==
    [i \in 1..Len(tms) |->
        IF tms[i].state = "waiting" /\ \E q \in DOMAIN active : active[q] = i
        THEN [tms[i] EXCEPT !.state = "abandoned"]
        ELSE tms[i]]

\* A plausible slip: the threads are spawned before the watcher is set up.
run_failed_spawned(l) == [spawn_threads(l) EXCEPT !.last.result = "Err"]

\* setup_file_watcher(..)? returns the error out of run: nothing was stored
\* in the service and no thread was spawned.
run_failed(l) == [l EXCEPT !.last = [op |-> "run", result |-> "Err", noop |-> FALSE]]

NoneWaiting == \A i \in 1..Len(timers) : timers[i].state # "waiting"

\* A plausible slip: a sender of the debounced channel is kept by the service.
senders_held(l, tms) == FALSE

\* Every sender of the debounced channel is dropped: the Debouncer's, at the
\* end of its thread, and the clone of each timer thread, at the end of it.
senders_gone(l, tms) == l.deb = "exited" /\ \A i \in 1..Len(tms) : tms[i].state # "waiting"

\* A plausible slip: the handle is taken and dropped, which detaches the thread.
joined_detached(handle, thread) == TRUE

\* if let Some(handle) = self.<thread>.take() { let _ = handle.join(); }: with
\* a handle, the call goes on once the thread has ended; without, at once.
joined(handle, thread) == handle => thread = "exited"

\* run fails at setup_file_watcher.
RunFails ==
    /\ svc \in {"created", "running", "stopped"}
    /\ life.pc = "idle"
    /\ life' = run_failed(life)
    /\ UNCHANGED <<disk, index, svc, watcher, raw_q, active_timers, timers, debounced_q,
                   last_call, store_idle, scan, history>>

\* run is called on a service that has run before, at a moment when nothing
\* is on its way: the new watcher replaces the old one (whose drop closes the
\* old raw channel, so the old threads, detached, end), a new Debouncer with
\* an empty active_timers and a new pair of threads are started.
RunAgain ==
    /\ svc \in {"running", "stopped"}
    /\ life.pc = "idle"
    /\ life.runs < MaxRuns
    /\ raw_q = <<>> /\ debounced_q = <<>> /\ NoneWaiting
    /\ svc' = "running"
    /\ watcher' = TRUE
    /\ active_timers' = EmptyDir
    /\ life' = spawn_threads(life)
    /\ UNCHANGED <<disk, index, raw_q, timers, debounced_q, last_call, store_idle, scan, history>>

\* shutdown begins: the watcher and shutdown_tx are taken.
ShutdownBegin ==
    /\ svc \in {"created", "running", "stopped"}
    /\ life.pc = "idle"
    /\ watcher' = take_watcher(watcher)
    /\ life' = [life EXCEPT
                   !.pc = "join_debouncer",
                   !.pending = {i \in 1..Len(timers) : timers[i].state = "waiting"},
                   !.last = [op |-> "shutdown", result |-> "none",
                             noop |-> ~(watcher \/ life.debouncer_thread \/ life.handler_thread)]]
    /\ UNCHANGED <<disk, index, svc, raw_q, active_timers, timers, debounced_q,
                   last_call, store_idle, scan, history>>

\* The loop of Debouncer::run ends: recv returns Err once the raw channel is
\* empty and its sender dropped. The thread ends and drops the Debouncer.
DebouncerExit ==
    /\ life.deb = "running"
    /\ ~watcher
    /\ raw_q = <<>>
    /\ timers' = teardown(timers, active_timers)
    /\ active_timers' = EmptyDir
    /\ life' = [life EXCEPT !.deb = "exited"]
    /\ UNCHANGED <<disk, index, svc, watcher, raw_q, debounced_q, last_call, store_idle, scan, history>>

\* shutdown joins the debouncer thread, if it holds its handle.
JoinDebouncer ==
    /\ life.pc = "join_debouncer"
    /\ joined(life.debouncer_thread, life.deb)
    /\ life' = [life EXCEPT !.pc = "join_handler", !.debouncer_thread = FALSE]
    /\ UNCHANGED <<disk, index, svc, watcher, raw_q, active_timers, timers, debounced_q,
                   last_call, store_idle, scan, history>>

\* The dispatch loop ends: recv returns Err once the debounced channel is
\* empty and every sender is dropped, the Debouncer's and the timer threads'.
HandlerExit ==
    /\ life.disp = "running"
    /\ senders_gone(life, timers)
    /\ debounced_q = <<>>
    /\ life' = [life EXCEPT !.disp = "exited"]
    /\ UNCHANGED <<disk, index, svc, watcher, raw_q, active_timers, timers, debounced_q,
                   last_call, store_idle, scan, history>>

\* shutdown joins the dispatch thread, if it holds its handle, and returns Ok.
JoinHandler ==
    /\ life.pc = "join_handler"
    /\ joined(life.handler_thread, life.disp)
    /\ life' = [life EXCEPT !.pc = "idle", !.handler_thread = FALSE, !.last.result = "Ok"]
    /\ svc' = IF svc = "running" THEN "stopped" ELSE svc
    /\ UNCHANGED <<disk, index, watcher, raw_q, active_timers, timers, debounced_q,
                   last_call, store_idle, scan, history>>

\* A few file changes, all to the paths of S
FsWithin(S) ==
    /\ Events < MaxLifeEvents
    /\ (FsCreate \/ FsWrite \/ FsRemove)
    /\ \A q \in WatchPaths \ S :
          /\ q \in DOMAIN disk' <=> q \in DOMAIN disk
          /\ q \in DOMAIN disk => disk'[q] = disk[q]
    /\ raw_q' # raw_q => raw_q'[Len(raw_q')].path \in S

\* The file changes of the life specification: a few changes to one note.
LifePaths == {<<"s", "/", "a", ".", "m", "d">>}

LifeFs == FsWithin(LifePaths)

LifeNext ==
    \/ ServiceCreate
    \/ Run
    \/ RunFails
    \/ RunAgain
    \/ LifeFs
    \/ DebouncerRecv
    \/ TimerFire
    \/ Dispatch
    \/ ShutdownBegin
    \/ DebouncerExit
    \/ JoinDebouncer
    \/ HandlerExit
    \/ JoinHandler

LifeSpec == Init /\ [][LifeNext]_vars

\* The service is run once and shut down, any number of times.
LiveNext ==
    \/ ServiceCreate
    \/ Run
    \/ LifeFs
    \/ DebouncerRecv
    \/ TimerFire
    \/ Dispatch
    \/ ShutdownBegin
    \/ DebouncerExit
    \/ JoinDebouncer
    \/ HandlerExit
    \/ JoinHandler

\* A step of the debouncer thread, of the dispatch thread or of shutdown
ThreadStep ==
    \/ DebouncerRecv
    \/ DebouncerExit
    \/ JoinDebouncer
    \/ Dispatch
    \/ HandlerExit
    \/ JoinHandler

\* The threads are scheduled: while one of them, or shutdown, can take a
\* step, some such step is taken. Nothing is assumed of the timers.
LiveSpec == Init /\ [][LiveNext]_vars /\ WF_vars(ThreadStep)

(***************************************************************************)
(* watcher/service.rs and watcher/handler.rs: the dispatch loop with an    *)
(* index port that can fail.                                               *)
(***************************************************************************)
\* The first index call a handler makes for a qualifying path
first_port(kind, path, dsk) ==
    CASE kind = "Create" -> "exists"
      [] kind = "Modify" -> IF path \in DOMAIN dsk THEN "index_note" ELSE "remove_note"
      [] kind = "Remove" -> "remove_note"

\* A handler call during which the index port fails: the `?` after the
\* handler's first index call returns the error, and nothing is written. A
\* path that does not qualify makes no index call and cannot fail.
dispatch_failing(kind, path, idx, dsk) ==
    IF ~is_markdown_file(path) THEN Handled(idx, <<>>)
    ELSE [index |-> idx, result |-> "Err", ports |-> <<first_port(kind, path, dsk)>>]

\* A plausible slip: the loop is left when a handler returns an error.
after_handler_break(result) == IF result = "Err" THEN "exited" ELSE "running"

\* if let Err(e) = handler.handle_..(&path) { eprintln!(..) }: the error is
\* printed and the while loop goes on.
after_handler(result) == "running"

\* One turn of the dispatch loop in which the index port fails.
FaultyDispatch ==
    /\ svc = "running"
    /\ life.disp = "running"
    /\ debounced_q # <<>>
    /\ LET ev == Head(debounced_q)
           done == dispatch_failing(ev.kind, ev.path, index, disk)
       IN  /\ index' = done.index
           /\ last_call' = [kind |-> ev.kind, path |-> ev.path, result |-> done.result,
                            ports |-> done.ports, had |-> exists(index, ev.path),
                            changed |-> done.index # index]
           /\ life' = [life EXCEPT !.disp = after_handler(done.result),
                                   !.errs = IF done.result = "Err" THEN @ + 1 ELSE @]
    /\ debounced_q' = Tail(debounced_q)
    /\ UNCHANGED <<disk, svc, watcher, raw_q, active_timers, timers, store_idle, scan, history>>

\* The file changes of the fault specification: a few changes to the notes.
FaultFs == FsWithin(NotePaths)

FaultNext ==
    \/ ServiceCreate
    \/ Run
    \/ FaultFs
    \/ DebouncerRecv
    \/ TimerFire
    \/ Dispatch
    \/ FaultyDispatch

FaultSpec == Init /\ [][FaultNext]_vars

(***************************************************************************)
(* watcher/service.rs: the dispatch loop with handler calls that take      *)
(* time, while files change and timers fire.                               *)
(***************************************************************************)
\* A plausible slip: every debounced event is handled on a thread of its own.
handler_free_always(l) == TRUE

\* The dispatch thread is in debounced_rx.recv(): the handler call of its
\* last turn has returned.
handler_free(l) == l.handling = <<>>

\* The sequence without its i-th element
without(seq, i) == SubSeq(seq, 1, i - 1) \o SubSeq(seq, i + 1, Len(seq))

\* The dispatch loop receives the next debounced event and calls its handler.
HandlerRecv ==
    /\ svc = "running"
    /\ life.disp = "running"
    /\ handler_free(life)
    /\ debounced_q # <<>>
    /\ life' = [life EXCEPT !.handling = Append(@, Head(debounced_q))]
    /\ debounced_q' = Tail(debounced_q)
    /\ UNCHANGED <<disk, index, svc, watcher, raw_q, active_timers, timers, last_call,
                   store_idle, scan, history>>

\* A handler call returns, having read the file and written to the index.
HandlerReturn ==
    /\ \E i \in 1..Len(life.handling) :
          LET ev == life.handling[i]
              done == dispatch(ev.kind, ev.path, index, disk)
          IN  /\ index' = done.index
              /\ last_call' = [kind |-> ev.kind, path |-> ev.path, result |-> done.result,
                               ports |-> done.ports, had |-> exists(index, ev.path),
                               changed |-> done.index # index]
              /\ life' = [life EXCEPT !.handling = without(@, i)]
    /\ UNCHANGED <<disk, svc, watcher, raw_q, active_timers, timers, debounced_q,
                   store_idle, scan, history>>

HandlerNext ==
    \/ ServiceCreate
    \/ Run
    \/ FaultFs
    \/ DebouncerRecv
    \/ TimerFire
    \/ HandlerRecv
    \/ HandlerReturn

HandlerSpec == Init /\ [][HandlerNext]_vars

(***************************************************************************)
(* watcher/watcher.rs: the callback of the OS watcher, given events of     *)
(* every kind.                                                             *)
(***************************************************************************)
\* The arm of the callback's match a kind takes: the event is sent on.
forwarded(kind) == variant(kind) \in {"Modify", "Create", "Remove"}

RECURSIVE send_each(_, _, _)
send_each(q, kind, paths) ==
    IF paths = <<>> THEN q
    ELSE send_each(Append(q, [kind |-> kind, path |-> Head(paths)]), kind, Tail(paths))

\* event_handler of setup_file_watcher: for each path of the event, the
\* (kind, path) pair is sent when the kind takes the sending arm.
event_handler(q, kind, paths) == IF forwarded(kind) THEN send_each(q, kind, paths) ELSE q

\* The mode or the times of a note are changed: its content is as it was.
FsTouch ==
    /\ svc = "running" /\ watcher
    /\ Events < MaxLifeEvents
    /\ \E path \in NotePaths \cap DOMAIN disk :
          raw_q' = event_handler(raw_q, "Modify(Metadata)", <<path>>)
    /\ UNCHANGED <<disk, index, svc, watcher, active_timers, timers, debounced_q, last_call,
                   store_idle, life, scan, history>>

\* A note is renamed within the shelf: one event that carries both paths.
FsRename ==
    /\ svc = "running" /\ watcher
    /\ Events < MaxLifeEvents
    /\ \E from \in NotePaths \cap DOMAIN disk : \E to \in NotePaths \ DOMAIN disk :
          /\ disk' = remove_file(write_file(disk, to, disk[from]), from)
          /\ raw_q' = event_handler(raw_q, "Modify(Name)", <<from, to>>)
    /\ UNCHANGED <<index, svc, watcher, active_timers, timers, debounced_q, last_call,
                   store_idle, life, scan, history>>

\* A note is read, or the OS reports an event of an unknown kind for it; the
\* call of the callback is noted down.
FsOther ==
    /\ svc = "running" /\ watcher
    /\ Len(history) < MaxLifeEvents
    /\ \E kind \in {"Access", "Any", "Other"} : \E path \in NotePaths \cap DOMAIN disk :
          /\ raw_q' = event_handler(raw_q, kind, <<path>>)
          /\ history' = Append(history, [op |-> "event_handler"])
    /\ UNCHANGED <<disk, index, svc, watcher, active_timers, timers, debounced_q, last_call,
                   store_idle, life, scan>>

KindNext ==
    \/ ServiceCreate
    \/ Run
    \/ FaultFs
    \/ FsTouch
    \/ FsRename
    \/ FsOther
    \/ DebouncerRecv
    \/ TimerFire
    \/ Dispatch

KindSpec == Init /\ [][KindNext]_vars

(***************************************************************************)
(* watcher/service.rs: file changes between WatcherService::create and     *)
(* run, when the backfill scan is over and no OS watcher exists yet.       *)
(***************************************************************************)
\* The note that changes before run, and the note that changes after it
GapPaths == {<<"s", "/", "a", ".", "m", "d">>}
LaterPaths == {<<"s", "/", "d", "/", "b", ".", "m", "d">>}

\* A note is created, written or deleted while the service is created and not
\* run: self.watcher is None, and no callback is there to send an event.
GapFs ==
    /\ svc = "created"
    /\ Len(history) < MaxLifeEvents
    /\ \E path \in GapPaths :
          \/ /\ path \notin DOMAIN disk
             /\ \E c \in Writes(path) : disk' = write_file(disk, path, c)
             /\ raw_q' = forward("Create", path)
             /\ history' = Append(history, [op |-> "gap", kind |-> "Create", path |-> path])
          \/ /\ path \in DOMAIN disk
             /\ \E c \in Writes(path) : disk' = write_file(disk, path, c)
             /\ raw_q' = forward("Modify", path)
             /\ history' = Append(history, [op |-> "gap", kind |-> "Modify", path |-> path])
          \/ /\ path \in DOMAIN disk
             /\ disk' = remove_file(disk, path)
             /\ raw_q' = forward("Remove", path)
             /\ history' = Append(history, [op |-> "gap", kind |-> "Remove", path |-> path])
    /\ UNCHANGED <<index, svc, watcher, active_timers, timers, debounced_q, last_call,
                   store_idle, life, scan>>

\* The file changes once the service runs: a few changes to another note.
LaterFs == FsWithin(LaterPaths)

GapNext ==
    \/ ServiceCreate
    \/ GapFs
    \/ Run
    \/ LaterFs
    \/ DebouncerRecv
    \/ TimerFire
    \/ Dispatch

GapSpec == Init /\ [][GapNext]_vars

(***************************************************************************)
(* watcher/index.rs: the backfill scan of Index::new, entry by entry, with *)
(* the failures it can meet.                                               *)
(***************************************************************************)
MaxFaults == 1

\* The files of the scanned shelf: the watched paths and a note two
\* directories down.
ScanPaths == WatchPaths \cup {<<"s", "/", "d", "/", "e", "/", "f", ".", "m", "d">>}

\* The directories above a path
RECURSIVE ancestors(_)
ancestors(path) ==
    IF last_slash(path) = 0 THEN {} ELSE {parent(path)} \cup ancestors(parent(path))

\* The directories of the tree: those that hold a file, at any depth.
dirs(dsk) == UNION {ancestors(q) : q \in DOMAIN dsk}

\* A plausible slip: the scan lists the files of a directory only.
read_dir_files(dir, dsk) == {q \in DOMAIN dsk : parent(q) = dir}

\* fs::read_dir(dir): the files and the directories directly in dir
read_dir(dir, dsk) ==
    {q \in DOMAIN dsk : parent(q) = dir} \cup {d \in dirs(dsk) : parent(d) = dir}

\* A plausible slip: the scan indexes every file it accepts, indexed or not.
visit_reindexing(path, idx, dsk, unreadable, index_fails) ==
    IF ~scan_accepts(path) THEN [index |-> idx, result |-> "Ok"]
    ELSE IF path \in index_fails THEN [index |-> idx, result |-> "Err"]
    ELSE IF path \in unreadable THEN [index |-> idx, result |-> "Ok"]
    ELSE [index |-> index_note(idx, open(path, dsk)), result |-> "Ok"]

\* The body of the loop of index_existing_files for an entry that is a file:
\* the index as it leaves it, and Err when an index call fails for the path.
visit(path, idx, dsk, unreadable, index_fails) ==
    IF ~scan_accepts(path) THEN [index |-> idx, result |-> "Ok"]
    ELSE IF path \in index_fails THEN [index |-> idx, result |-> "Err"]
    ELSE IF exists(idx, path) \/ path \in unreadable THEN [index |-> idx, result |-> "Ok"]
    ELSE [index |-> index_note(idx, open(path, dsk)), result |-> "Ok"]

\* An index database left by an earlier service, with an entry that is out of date
StaleIndex ==
    [q \in {<<"s", "/", "a", ".", "m", "d">>} |-> [title |-> <<"B">>, content |-> <<"#", "B">>]]

\* Index::new: the database is opened, its tables exist, and the scan starts
\* at the shelf directory. Some entries may be unreadable, and the index may
\* fail for some paths.
ScanBegin ==
    /\ svc = "none"
    /\ scan.pc = "none"
    /\ \E unreadable \in SUBSET (DOMAIN disk \cup (dirs(disk) \ {ShelfDir})) :
       \E index_fails \in SUBSET {q \in DOMAIN disk : scan_accepts(q)} :
          /\ Cardinality(unreadable) + Cardinality(index_fails) <= MaxFaults
          /\ scan' = [pc |-> "scanning", stack |-> <<read_dir(ShelfDir, disk)>>,
                      before |-> index, unreadable |-> unreadable,
                      index_fails |-> index_fails]
    /\ UNCHANGED <<disk, index, svc, watcher, raw_q, active_timers, timers, debounced_q,
                   last_call, store_idle, life, history>>

\* One turn of the loop of index_existing_files, at the innermost call: a
\* directory is entered, after read_dir has listed it, or a file is visited.
\* An Err leaves every call by `?`, Index::new returns it, and the expect of
\* WatcherService::create panics.
ScanStep ==
    /\ scan.pc = "scanning"
    /\ scan.stack[Len(scan.stack)] # {}
    /\ \E e \in scan.stack[Len(scan.stack)] :
          LET rest == [scan.stack EXCEPT ![Len(scan.stack)] = @ \ {e}]
          IN  IF e \in dirs(disk)
              THEN /\ index' = index
                   /\ IF e \in scan.unreadable
                      THEN scan' = [scan EXCEPT !.pc = "failed", !.stack = rest]
                      ELSE scan' = [scan EXCEPT !.stack = Append(rest, read_dir(e, disk))]
              ELSE LET done == visit(e, index, disk, scan.unreadable, scan.index_fails)
                   IN  /\ index' = done.index
                       /\ scan' = [scan EXCEPT
                                      !.pc = IF done.result = "Ok" THEN "scanning" ELSE "failed",
                                      !.stack = rest]
    /\ svc' = IF scan'.pc = "failed" THEN "panicked" ELSE svc
    /\ UNCHANGED <<disk, watcher, raw_q, active_timers, timers, debounced_q,
                   last_call, store_idle, life, history>>

\* The loop of a call is over: it returns Ok to the call above it, and the
\* outermost call to Index::new, after which WatcherService::create returns
\* the service.
ScanReturn ==
    /\ scan.pc = "scanning"
    /\ scan.stack[Len(scan.stack)] = {}
    /\ scan' = [scan EXCEPT !.stack = SubSeq(scan.stack, 1, Len(scan.stack) - 1),
                            !.pc = IF Len(scan.stack) = 1 THEN "done" ELSE "scanning"]
    /\ svc' = IF Len(scan.stack) = 1 THEN "created" ELSE svc
    /\ UNCHANGED <<disk, index, watcher, raw_q, active_timers, timers, debounced_q,
                   last_call, store_idle, life, history>>

\* Any part of the shelf's files exists, each a headed note, and the index
\* database is new or left by an earlier service.
ScanInit ==
    /\ disk \in {[q \in S |-> <<"#", "A">>] : S \in SUBSET ScanPaths}
    /\ index \in {EmptyDir, StaleIndex}
    /\ notes = {}
    /\ input = NoInput
    /\ save_op = NoSave
    /\ svc = "none"
    /\ watcher = FALSE
    /\ raw_q = <<>>
    /\ active_timers = EmptyDir
    /\ timers = <<>>
    /\ debounced_q = <<>>
    /\ last_call = NoCall
    /\ life = NoLife
    /\ scan = NoScan
    /\ history = <<>>

ScanNext ==
    \/ ScanBegin
    \/ ScanStep
    \/ ScanReturn

ScanSpec == ScanInit /\ [][ScanNext]_vars

(***************************************************************************)
(* watcher/index.rs: the index port called directly, index_note and        *)
(* remove_note in any order for a few paths.                               *)
(***************************************************************************)
MaxCalls == 3

\* The paths of the notes indexed: a note of the shelf, and one note in each
\* of two directories whose names are one byte that is not valid UTF-8.
IndexPaths == {
    <<"s", "/", "a", ".", "m", "d">>,
    <<"s", "/", "<FE>", "/", "a", ".", "m", "d">>,
    <<"s", "/", "<FF>", "/", "a", ".", "m", "d">> }

IndexTitles == {<<"A">>, <<"B">>}

\* index.index_note(&note)
IndexNote ==
    /\ Len(history) < MaxCalls
    /\ \E path \in IndexPaths, title \in IndexTitles, content \in FileContents :
          /\ index' = index_note(index, LocalNote(title, content, path))
          /\ history' = Append(history, [op |-> "index_note", path |-> path,
                                         title |-> title, content |-> content])
    /\ UNCHANGED <<disk, svc, watcher, raw_q, active_timers, timers, debounced_q,
                   last_call, store_idle, life, scan>>

\* index.remove_note(&note): Ok(true) when a row was deleted
RemoveNote ==
    /\ Len(history) < MaxCalls
    /\ \E path \in IndexPaths :
          /\ index' = remove_note(index, path)
          /\ history' = Append(history, [op |-> "remove_note", path |-> path,
                                         removed |-> exists(index, path)])
    /\ UNCHANGED <<disk, svc, watcher, raw_q, active_timers, timers, debounced_q,
                   last_call, store_idle, life, scan>>

IndexNext ==
    \/ IndexNote
    \/ RemoveNote

IndexSpec == StoreInit /\ [][IndexNext]_vars

(***************************************************************************)
(* shelf/manager.rs: the ShelfManager of one shelf, whose calls name a     *)
(* note by its slug.                                                       *)
(***************************************************************************)
MaxShelfCalls == 3

\* Option::None for a title or a content argument
None == <<"/">>

ShelfTitles == {<<>>, <<"A">>}
NewTitles == {<<"A">>, <<"B">>}
NewContents == {<<"x">>}

\* manager.create_note(title, content)
CreateNote ==
    /\ Len(history) < MaxShelfCalls
    /\ \E title \in ShelfTitles, content \in StoreContents :
          LET note == create(title, content, ShelfDir, disk)
          IN  /\ disk' = write_file(disk, note.path, note.content)
              /\ notes' = notes \cup {note}
              /\ history' = Append(history, [op |-> "create_note", title |-> title,
                                             content |-> content, names |-> DOMAIN disk,
                                             note |-> note])
    /\ UNCHANGED <<input, save_op, pipe_vars>>

\* manager.delete_note(slug), for the slug of a file of the shelf
DeleteNote ==
    /\ Len(history) < MaxShelfCalls
    /\ \E path \in DOMAIN disk :
          /\ disk' = remove_file(disk, path)
          /\ notes' = {n \in notes : n.path # path}
          /\ history' = Append(history, [op |-> "delete_note", path |-> path])
    /\ UNCHANGED <<input, save_op, pipe_vars>>

\* manager.update_note(slug, new_title, new_content), for the slug of a file
\* of the shelf: the note is opened, given the title and the content, saved,
\* and the file at the path it had is removed when the path has changed. The
\* note reload reads is dropped; the note that was saved is returned.
UpdateNote ==
    /\ Len(history) < MaxShelfCalls
    /\ \E path \in DOMAIN disk :
       \E new_title \in NewTitles \cup {None}, new_content \in NewContents \cup {None} :
          LET original_note == open(path, disk)
              titled == IF new_title # None THEN with_title(original_note, new_title, disk)
                        ELSE original_note
              final_note == IF new_content # None THEN with_content(titled, new_content)
                            ELSE titled
              saved == write_file(disk, final_note.path, final_note.content)
          IN  /\ disk' = IF final_note.path # original_note.path
                         THEN remove_file(saved, original_note.path)
                         ELSE saved
              /\ notes' = {n \in notes : n.path # path} \cup {final_note}
              /\ history' = Append(history, [op |-> "update_note", original |-> original_note,
                                             new_title |-> new_title,
                                             new_content |-> new_content,
                                             names |-> DOMAIN disk, note |-> final_note])
    /\ UNCHANGED <<input, save_op, pipe_vars>>

ShelfNext ==
    \/ CreateNote
    \/ DeleteNote
    \/ UpdateNote

ShelfSpec == StoreInit /\ [][ShelfNext]_vars

(***************************************************************************)
(* domain.rs: with_title as a function. One note, whose file holds a       *)
(* content drawn at the start, is given a title drawn at the start.        *)
(***************************************************************************)
TitlePath == <<"s", "/", "n", ".", "m", "d">>

\* note.with_title(new_title), for the note opened from TitlePath
WithTitle ==
    /\ history = <<>>
    /\ \E note \in notes :
          /\ notes' = notes \cup {with_title(note, input.title, disk)}
          /\ history' = Append(history, [op |-> "with_title", original |-> note,
                                         new_title |-> input.title, names |-> DOMAIN disk,
                                         note |-> with_title(note, input.title, disk)])
    /\ UNCHANGED <<disk, input, save_op, pipe_vars>>

TitleInit ==
    /\ input \in [title : Titles, content : Contents]
    /\ disk = [q \in {TitlePath} |-> input.content]
    /\ notes = {open(TitlePath, disk)}
    /\ save_op = NoSave
    /\ NoPipeline
    /\ history = <<>>

TitleNext == WithTitle

TitleSpec == TitleInit /\ [][TitleNext]_vars

(***************************************************************************)
(* domain.rs: LocalNote::create called by two threads. A call probes for a *)
(* free name (is_unique) and then writes the file (fs::write); the calls   *)
(* of the two threads interleave at will.                                  *)
(***************************************************************************)
Callers == {1, 2}

\* The steps a caller has taken, and whether its last call is between its
\* probe and its write
StepsOf(c) == {i \in 1..Len(history) : history[i].caller = c}
Probing(c) == StepsOf(c) # {} /\ history[CHOOSE i \in StepsOf(c) : \A j \in StepsOf(c) : j <= i].op = "probe"
Probes == {i \in 1..Len(history) : history[i].op = "probe"}

\* create up to is_unique: the content and the title are made, and the first
\* candidate path that does not exist is chosen.
CreateProbe ==
    /\ Cardinality(Probes) < MaxNotes
    /\ \E c \in Callers :
          /\ ~Probing(c)
          /\ \E title \in StoreTitles, content \in StoreContents :
                history' = Append(history, [op |-> "probe", caller |-> c, title |-> title,
                                            note |-> create(title, content, ShelfDir, disk)])
    /\ UNCHANGED <<disk, notes, input, save_op, pipe_vars>>

\* create from fs::write on: the file is written at the path chosen, whatever
\* is there by now, and the note returned.
CreateWrite ==
    /\ \E c \in Callers :
          /\ Probing(c)
          /\ LET call == history[CHOOSE i \in StepsOf(c) : \A j \in StepsOf(c) : j <= i]
             IN  /\ disk' = write_file(disk, call.note.path, call.note.content)
                 /\ notes' = notes \cup {call.note}
                 /\ history' = Append(history, [call EXCEPT !.op = "write"])
    /\ UNCHANGED <<input, save_op, pipe_vars>>

RaceNext ==
    \/ CreateProbe
    \/ CreateWrite

RaceSpec == StoreInit /\ [][RaceNext]_vars

(***************************************************************************)
(* shelf/manager.rs and domain.rs: update_note step by step. save is       *)
(* write_atomic (a temporary file is created, written and renamed onto the *)
(* note's path), and each step can fail.                                   *)
(***************************************************************************)
\* A plausible slip: the file at the old path is removed before the save.
remove_before_save(dsk, old_path, new_path) ==
    IF new_path # old_path THEN remove_file(dsk, old_path) ELSE dsk

\* The disk when final_note.save() is called: update_note has only read.
before_save(dsk, old_path, new_path) == dsk

\* No call of the manager is in progress.
ManagerIdle == save_op.pc \notin {"writing", "saved"}

\* manager.create_note, between two calls of update_note
UpdateCreate == ManagerIdle /\ CreateNote

\* update_note up to the start of save: the note is opened, given the title
\* and the content, and write_atomic creates its temporary file.
UpdateBegin ==
    /\ ManagerIdle
    /\ Len(history) < MaxShelfCalls
    /\ \E path \in DOMAIN disk :
       \E new_title \in NewTitles \cup {None}, new_content \in NewContents \cup {None} :
          LET original_note == open(path, disk)
              titled == IF new_title # None THEN with_title(original_note, new_title, disk)
                        ELSE original_note
              final_note == IF new_content # None THEN with_content(titled, new_content)
                            ELSE titled
              dsk == before_save(disk, original_note.path, final_note.path)
              tmp == new_tmp(final_note.path, dsk)
          IN  /\ save_op' = [pc |-> "writing", original |-> original_note,
                             final |-> final_note, new_title |-> new_title,
                             new |-> final_note.content, tmp |-> tmp]
              /\ disk' = write_file(dsk, tmp, <<>>)
    /\ UNCHANGED <<notes, input, pipe_vars, history>>

\* tmp.persist(path): the temporary file is renamed onto the note's path, and
\* save returns Ok.
UpdatePersist ==
    /\ save_op.pc = "writing"
    /\ disk[save_op.tmp] = save_op.new
    /\ disk' = write_file(remove_file(disk, save_op.tmp), save_op.final.path, disk[save_op.tmp])
    /\ save_op' = [save_op EXCEPT !.pc = "saved"]
    /\ UNCHANGED <<notes, input, pipe_vars, history>>

\* update_note after save: the file at the old path is removed when the path
\* has changed, and the note is returned.
UpdateRemove ==
    /\ save_op.pc = "saved"
    /\ disk' = IF save_op.final.path # save_op.original.path
               THEN remove_file(disk, save_op.original.path)
               ELSE disk
    /\ notes' = {n \in notes : n.path # save_op.original.path} \cup {save_op.final}
    /\ save_op' = [save_op EXCEPT !.pc = "done"]
    /\ history' = Append(history, [op |-> "update_note", original |-> save_op.original,
                                   new_title |-> save_op.new_title, note |-> save_op.final])
    /\ UNCHANGED <<input, pipe_vars>>

UpdateNext ==
    \/ UpdateCreate
    \/ UpdateBegin
    \/ SaveWrite
    \/ SaveFail
    \/ UpdatePersist
    \/ UpdateRemove

UpdateSpec == StoreInit /\ [][UpdateNext]_vars

(***************************************************************************)
(* Claims about the note store.                                            *)
(***************************************************************************)

\* C3: while a save is in progress, and after it has returned, failed or been
\* cut short by a crash, the file at note.path holds exactly its previous
\* content or exactly the new content: the target is untouched until the
\* rename, the bytes go to a temporary file in the directory of the target,
\* and the target holds the new content once save has returned Ok.
C3_AtomicSave ==
    save_op.pc # "idle" =>
        /\ save_op.path \in DOMAIN disk
        /\ disk[save_op.path] \in {save_op.old, save_op.new}
        /\ save_op.pc \in {"writing", "failed", "crashed"} => disk[save_op.path] = save_op.old
        /\ save_op.pc = "done" => disk[save_op.path] = save_op.new
        /\ save_op.tmp # save_op.path
        /\ parent(save_op.tmp) = parent(save_op.path)

\* A crash in the middle of write_all: the temporary file holds a proper,
\* non-empty part of the new content, which differs from the old content.
C3_Witness ==
    /\ save_op.pc = "crashed"
    /\ save_op.old # save_op.new
    /\ save_op.tmp \in DOMAIN disk
    /\ 0 < Len(disk[save_op.tmp])
    /\ Len(disk[save_op.tmp]) < Len(save_op.new)

\* C4: create never writes to a path that existed when the call began, and it
\* leaves every existing file as it was; so the notes created and not deleted
\* have pairwise distinct paths, and each one's file still holds its content.
C4_CreateFresh ==
    /\ [](/\ \A n1, n2 \in notes : n1.path = n2.path => n1 = n2
          /\ \A n \in notes : n.path \in DOMAIN disk /\ disk[n.path] = n.content)
    /\ [][(notes \subseteq notes' /\ notes' # notes) =>
             /\ \A n \in notes' \ notes : n.path \notin DOMAIN disk
             /\ \A q \in DOMAIN disk : q \in DOMAIN disk' /\ disk'[q] = disk[q]]_vars

\* Two notes with different titles and one slug are both held: the second
\* create found its first candidate name taken.
C4_Witness ==
    \E n1, n2 \in notes :
        /\ n1.title # n2.title
        /\ slugify_title(n1.title) = slugify_title(n2.title)
        /\ n2.path = candidate(slugify_title(n2.title), ShelfDir, 1)

\* The file name C5 states for the k-th further note of title t: the title
\* verbatim, then a space and the counter.
verbatim_name(t, k) == IF k = 0 THEN t \o DotMd ELSE t \o <<" ">> \o to_string(k) \o DotMd

\* C5: creating k notes with one title T (a title that is its own sanitised
\* form, with a content that brings no heading of its own) in an initially
\* empty directory yields the file names "T.md", "T 1.md", "T 2.md", ..., in
\* creation order, each note keeping the title T.
C5_VerbatimNames ==
    (sanitize_title(input.title) = input.title /\ ~starts_with(input.content, "#")) =>
        /\ {n.path : n \in notes} =
               {join(ShelfDir, verbatim_name(input.title, k)) : k \in 0..(Cardinality(notes) - 1)}
        /\ \A n \in notes : n.title = input.title

\* C6: the note create returns holds the supplied content, and opening its
\* path yields that content and the title function's value for the supplied
\* title.
C6_RoundTrip ==
    \A n \in notes :
        /\ n.content = input.content
        /\ open(n.path, disk).content = input.content
        /\ open(n.path, disk).title = sanitize_title(input.title)

(***************************************************************************)
(* Claims about the pipeline.                                              *)
(***************************************************************************)
\* The pipeline is quiet: the watcher runs and no event is on its way, in a
\* channel or in a timer.
Quiet ==
    /\ svc = "running" /\ watcher
    /\ raw_q = <<>> /\ debounced_q = <<>>
    /\ \A i \in 1..Len(timers) : timers[i].state # "waiting"

\* get_by_path agrees with the disk for the path.
Agrees(path) ==
    IF path \in DOMAIN disk
    THEN exists(index, path) /\ get_by_path(index, path).content = disk[path]
    ELSE get_by_path(index, path) = NoEntry

\* C1: once the file changes to a qualifying watched path are over and the
\* pipeline has become quiet, the index agrees with the disk for that path.
C1_Converged ==
    Quiet => \A path \in WatchPaths : is_markdown_file(path) => Agrees(path)

\* The timer spawned for the next event of timer i's path, or 0
next_for(i) ==
    IF \E j \in (i + 1)..Len(timers) : timers[j].path = timers[i].path
    THEN CHOOSE j \in (i + 1)..Len(timers) :
             /\ timers[j].path = timers[i].path
             /\ \A k \in (i + 1)..(j - 1) : timers[k].path # timers[i].path
    ELSE 0

\* C2: of the events of one path that each arrive while the timer of the
\* event before is still waiting, only the last is emitted downstream: a timer
\* whose successor arrived in time is cancelled and never fires, and the last
\* timer of the path waits or has fired with the kind of the last event.
C2_Coalesce ==
    \A i \in 1..Len(timers) :
        /\ (next_for(i) # 0 /\ timers[next_for(i)].early) => timers[i].state = "cancelled"
        /\ next_for(i) = 0 =>
              /\ timers[i].state \in {"waiting", "fired"}
              /\ active_timers[timers[i].path] = i
        /\ Cardinality({j \in 1..Len(timers) :
                            timers[j].path = timers[i].path /\ timers[j].state = "waiting"}) <= 1

\* Create, Modify, Modify for one path, each in time: the first two timers
\* are cancelled and the third has fired, as a Modify.
C2_Witness ==
    /\ Len(timers) = 3
    /\ \A i \in 1..3 : timers[i].path = timers[1].path
    /\ timers[1].kind = "Create" /\ timers[2].kind = "Modify"
    /\ timers[2].early /\ timers[3].early
    /\ timers[3].state = "fired" /\ timers[3].kind = "Modify"
    /\ debounced_q = <<[kind |-> "Modify", path |-> timers[1].path]>>

\* A turn of the dispatch loop that handles an event of the kind
Dispatching(kind) ==
    /\ debounced_q # <<>>
    /\ debounced_q' = Tail(debounced_q)
    /\ Head(debounced_q).kind = kind

\* C7: a Create event dispatched for a path that has an index entry writes
\* nothing to the index: the index is left as it was.
C7_DuplicateCreate ==
    [][(Dispatching("Create") /\ exists(index, Head(debounced_q).path)) =>
          /\ index' = index
          /\ last_call'.ports = <<"exists">>
          /\ last_call'.result = "Ok"]_vars

\* A Create was dispatched for an indexed path whose file holds another
\* content than the entry.
C7_Witness ==
    /\ last_call.kind = "Create"
    /\ last_call.had
    /\ last_call.path \in DOMAIN disk
    /\ index[last_call.path].content # disk[last_call.path]

\* C8: a Modify event for a qualifying path puts the file's title and content
\* into the index when the file can be opened and removes the path's entry
\* when it cannot; other entries are left alone and the handler returns Ok.
C8_Modify ==
    [][(Dispatching("Modify") /\ is_markdown_file(Head(debounced_q).path)) =>
          LET path == Head(debounced_q).path
          IN  /\ path \in DOMAIN disk =>
                    /\ exists(index', path)
                    /\ index'[path] = [title |-> sanitize_title(disk[path]), content |-> disk[path]]
              /\ path \notin DOMAIN disk => ~exists(index', path)
              /\ \A q \in (DOMAIN index \cup DOMAIN index') \ {path} :
                    q \in DOMAIN index /\ q \in DOMAIN index' /\ index'[q] = index[q]
              /\ last_call'.result = "Ok"]_vars

\* A Modify was dispatched for an indexed path whose file was gone.
C8_Witness ==
    /\ last_call.kind = "Modify"
    /\ is_markdown_file(last_call.path)
    /\ last_call.had
    /\ last_call.ports = <<"remove_note">>
    /\ ~exists(index, last_call.path)

\* C9: a Remove event for a qualifying path leaves no index entry for the
\* path, whether or not the file exists, leaves the other entries alone, and
\* returns Ok also when the path had no entry.
C9_Remove ==
    [][(Dispatching("Remove") /\ is_markdown_file(Head(debounced_q).path)) =>
          LET path == Head(debounced_q).path
          IN  /\ ~exists(index', path)
              /\ \A q \in DOMAIN index \ {path} : q \in DOMAIN index' /\ index'[q] = index[q]
              /\ DOMAIN index' \subseteq DOMAIN index
              /\ last_call'.result = "Ok"]_vars

\* A Remove was dispatched for a path without an entry whose file exists
\* (created again since).
C9_Witness ==
    /\ last_call.kind = "Remove"
    /\ is_markdown_file(last_call.path)
    /\ ~last_call.had
    /\ last_call.result = "Ok"
    /\ last_call.path \in DOMAIN disk

\* C10: an event of any kind whose path lacks the .md extension or whose file
\* name starts with '.' makes no index port call and leaves the index as it
\* was; the backfill scan filters alike, so no such path is ever in the index.
C10_Filtered ==
    /\ [](\A q \in DOMAIN index : extension(q) = Md /\ ~starts_with(file_name(q), "."))
    /\ [][(debounced_q # <<>> /\ debounced_q' = Tail(debounced_q)
             /\ (extension(Head(debounced_q).path) # Md
                   \/ starts_with(file_name(Head(debounced_q).path), "."))) =>
             /\ index' = index
             /\ last_call'.ports = <<>>]_vars

\* The scan has passed over a hidden Markdown file and a text file, and an
\* event for the hidden file, which exists, has been dispatched since.
C10_Witness ==
    /\ last_call.kind \in {"Create", "Modify"}
    /\ extension(last_call.path) = Md
    /\ starts_with(file_name(last_call.path), ".")
    /\ last_call.path \in DOMAIN disk
    /\ \E q \in DOMAIN disk : extension(q) # Md
    /\ \E q \in DOMAIN index : TRUE

(***************************************************************************)
(* Claims about the life of the service.                                   *)
(***************************************************************************)
\* shutdown has returned and nothing was called since.
ShutdownReturned == life.last.op = "shutdown" /\ life.last.result = "Ok"

\* C11: the debouncer's loop ends only when its input channel is closed and
\* drained, and a timer that has not fired when the debouncer is torn down is
\* abandoned: none is left waiting, none fires later, and nothing more is
\* emitted downstream.
C11_Abandoned ==
    /\ [](life.deb = "exited" => NoneWaiting)
    /\ [][/\ (life.deb = "running" /\ life'.deb = "exited") => (~watcher /\ raw_q = <<>>)
          /\ life.deb = "exited" =>
                /\ \/ debounced_q' = debounced_q
                   \/ debounced_q # <<>> /\ debounced_q' = Tail(debounced_q)
                /\ \A i \in 1..Len(timers) :
                      timers[i].state = "abandoned" => timers'[i].state = "abandoned"]_vars

\* A timer was abandoned and both threads have ended without any event ever
\* dispatched.
C11_Witness ==
    /\ life.deb = "exited" /\ life.disp = "exited"
    /\ \E i \in 1..Len(timers) : timers[i].state = "abandoned"
    /\ last_call = NoCall

\* C12: when shutdown has returned, every timer that was pending when it was
\* called has emitted its event (and the event was dispatched): none was
\* abandoned.
C12_NothingLost ==
    ShutdownReturned => \A i \in life.pending : timers[i].state # "abandoned"

\* C13: a call of shutdown returns: from a running service with pending
\* timers and queued events it returns Ok with the watcher gone, both threads
\* ended and both handles taken; on a service that never ran or is stopped
\* already, it changes nothing and returns Ok.
C13_ShutdownReturns ==
    /\ [](ShutdownReturned =>
             /\ ~watcher /\ ~life.debouncer_thread /\ ~life.handler_thread
             /\ life.deb \in {"none", "exited"} /\ life.disp \in {"none", "exited"})
    /\ [][(svc \in {"created", "stopped"} /\ life'.pc # life.pc) =>
             /\ svc' = svc /\ watcher' = watcher /\ index' = index
             /\ life'.deb = life.deb /\ life'.disp = life.disp
             /\ life'.debouncer_thread = life.debouncer_thread
             /\ life'.handler_thread = life.handler_thread]_vars
    /\ (life.pc # "idle") ~> (life.pc = "idle" /\ ShutdownReturned)

\* shutdown has returned from a call made while a timer was pending and a
\* debounced event was queued.
C13_Witness ==
    /\ ShutdownReturned
    /\ svc = "stopped"
    /\ life.pending # {}
    /\ last_call # NoCall

\* C14: the watcher is stopped before shutdown waits on a thread, so no raw
\* event is sent to the debouncer once shutdown has begun; and the dispatch
\* loop never ends before the debouncer loop.
C14_WatcherFirst ==
    /\ [](/\ life.pc # "idle" => ~watcher
          /\ life.disp = "exited" => life.deb = "exited")
    /\ [][life.pc # "idle" =>
             \/ raw_q' = raw_q
             \/ raw_q # <<>> /\ raw_q' = Tail(raw_q)]_vars

\* shutdown waits for the debouncer, which still has a raw event to receive,
\* while the file has changed again since shutdown began.
C14_Witness ==
    /\ life.pc = "join_debouncer"
    /\ life.deb = "running"
    /\ raw_q # <<>>
    /\ disk # [q \in WatchPaths |-> <<"#", "A">>] /\ disk # EmptyDir
    /\ Len(timers) + Len(raw_q) < MaxLifeEvents

\* C15: run starts a watcher and a pair of threads only on a service that
\* has not run yet, and a stopped service stays stopped.
C15_Lifecycle ==
    [][/\ life'.runs # life.runs => svc = "created"
       /\ svc = "stopped" => svc' = "stopped"]_vars

\* C18: a run that fails at the watcher's set-up leaves the service as it
\* was before the call: no watcher stored, no thread spawned, no handle kept;
\* a service that has not run successfully has none of them.
C18_RunFails ==
    /\ [](svc = "created" =>
             /\ ~watcher /\ ~life.debouncer_thread /\ ~life.handler_thread
             /\ life.deb = "none" /\ life.disp = "none" /\ life.runs = 0)
    /\ [][(life'.last.op = "run" /\ life'.last.result = "Err" /\ life'.last # life.last) =>
             /\ svc' = svc /\ watcher' = watcher
             /\ life'.debouncer_thread = life.debouncer_thread
             /\ life'.handler_thread = life.handler_thread
             /\ life'.deb = life.deb /\ life'.disp = life.disp
             /\ life'.runs = life.runs]_vars

\* run has failed on a service that never ran.
C18_Witness ==
    /\ svc = "created"
    /\ life.last.op = "run" /\ life.last.result = "Err"

(***************************************************************************)
(* Claims about the backfill scan.                                         *)
(***************************************************************************)
\* The file qualifies for the index and can be read.
Readable(q) == scan_accepts(q) /\ q \notin scan.unreadable

C17_FaultsSkipped ==
    /\ scan.pc # "failed"
    /\ svc # "panicked"
    /\ scan.pc = "done" =>
          \A q \in DOMAIN disk :
              (Readable(q) /\ q \notin scan.index_fails /\ q \notin DOMAIN scan.before) =>
                  exists(index, q)

(***************************************************************************)
(* Claims about the dispatch loop under index failures.                    *)
(***************************************************************************)
\* C19: an error returned by the handler does not end the dispatch loop: the
\* turn that failed took its event off the channel and left the index alone,
\* and the loop is running for the events that follow, of any path.
C19_LoopGoesOn ==
    /\ [](svc = "running" => life.disp = "running")
    /\ [][life'.errs # life.errs =>
             /\ debounced_q # <<>> /\ debounced_q' = Tail(debounced_q)
             /\ index' = index
             /\ last_call'.result = "Err"]_vars

\* After a handler error for one path, an event of another path was
\* dispatched and indexed.
C19_Witness ==
    /\ life.errs > 0
    /\ last_call.kind # "none"
    /\ last_call.result = "Ok"
    /\ last_call.changed
    /\ \E i \in 1..Len(timers) : timers[i].state = "fired" /\ timers[i].path # last_call.path

(***************************************************************************)
(* Claims about saving unchanged content.                                  *)
(***************************************************************************)
\* C20: a save of a content that is byte-identical to the file on disk ends
\* with the NoChanges condition, which is not the Io failure, and writes
\* nothing: no temporary file is created and no rename is made.
C20_NoChanges ==
    (save_op.pc # "idle" /\ save_op.new = save_op.old) =>
        /\ save_op.pc = "no_changes"
        /\ save_op.tmp \notin DOMAIN disk

(***************************************************************************)
(* Claims about the index port.                                            *)
(***************************************************************************)
\* The last call made for the path, or 0
last_for(path) ==
    IF \E i \in 1..Len(history) : history[i].path = path
    THEN CHOOSE i \in 1..Len(history) :
             /\ history[i].path = path
             /\ \A j \in (i + 1)..Len(history) : history[j].path # path
    ELSE 0

\* C21: after any index_note and remove_note calls, get_by_path(p) returns
\* the title and content of the most recent index_note for p, and none when
\* p was never indexed or remove_note was the most recent call for p.
C21_LastWriterWins ==
    \A path \in IndexPaths :
        IF last_for(path) = 0 \/ history[last_for(path)].op = "remove_note"
        THEN get_by_path(index, path) = NoEntry
        ELSE get_by_path(index, path) = [title |-> history[last_for(path)].title,
                                          content |-> history[last_for(path)].content]

(***************************************************************************)
(* Claims about renaming and naming notes.                                 *)
(***************************************************************************)
\* The last call was update_note with the title and no content argument.
Renamed(new_title) ==
    /\ history # <<>>
    /\ history[Len(history)].op = "update_note"
    /\ history[Len(history)].new_title = new_title
    /\ history[Len(history)].new_content = None

\* C22: renaming a note to a new title leaves no file at the old path and a
\* file at the new path, keeps the note's content, sets the title to the new
\* title, and gives a path that ends in '<new title>.md'.
C22_Rename ==
    \A new_title \in NewTitles :
        (Renamed(new_title) /\ history[Len(history)].original.title # new_title) =>
            LET h == history[Len(history)]
            IN  /\ h.original.path \notin DOMAIN disk
                /\ h.note.path \in DOMAIN disk
                /\ h.note.content = h.original.content
                /\ disk[h.note.path] = h.original.content
                /\ h.note.title = new_title
                /\ file_name(h.note.path) = new_title \o DotMd

\* C23: renaming a note to the title it already has resolves to the path the
\* note has: the path is unchanged, no second file is created and none is
\* removed.
C23_RenameSame ==
    \A new_title \in NewTitles :
        (Renamed(new_title) /\ history[Len(history)].original.title = new_title) =>
            LET h == history[Len(history)]
            IN  /\ h.note.path = h.original.path
                /\ DOMAIN disk = h.names

\* C25: two create calls with one title, made into directories that hold the
\* same file names, choose the same file name, whatever the content.
C25_NameFromTitle ==
    \A i, j \in 1..Len(history) :
        (/\ history[i].op = "create_note" /\ history[j].op = "create_note"
         /\ history[i].title = history[j].title
         /\ history[i].names = history[j].names) =>
            history[i].note.path = history[j].note.path

\* C24: every note returned has a non-empty title, also when it is opened
\* again; and create with a blank title (and a content without a heading of
\* its own) yields the title "Untitled" and, in an empty directory, a path
\* that ends in 'Untitled.md'.
C24_Untitled ==
    /\ \A n \in notes : n.title # <<>> /\ open(n.path, disk).title # <<>>
    /\ (notes # {} /\ trim(input.title) = <<>> /\ ~starts_with(input.content, "#")) =>
          /\ \A n \in notes : n.title = Untitled
          /\ \E n \in notes : file_name(n.path) = Untitled \o DotMd

(***************************************************************************)
(* Claims about the debouncer's timers.                                    *)
(***************************************************************************)
\* A turn of the debouncer loop for an event whose path has a sender in
\* active_timers that reaches a timer that has ended.
RecvAfterEnd ==
    /\ raw_q # <<>>
    /\ raw_q' = Tail(raw_q)
    /\ send_cancel(timers, Head(raw_q).path, active_timers) = "Err"

\* C26: an event for a path whose previous timer has fired or otherwise
\* ended is received like any other: the debouncer loop is never blocked on
\* a raw event and never ends while the service runs, the cancellation sent
\* to the ended timer changes no timer, and the new timer is spawned,
\* waiting, and registered for the path.
C26_CancelIdempotent ==
    /\ [](svc = "running" => life.deb = "running")
    /\ []((svc = "running" /\ raw_q # <<>>) => ENABLED DebouncerRecv)
    /\ [][RecvAfterEnd =>
             /\ Len(timers') = Len(timers) + 1
             /\ \A i \in 1..Len(timers) : timers'[i] = timers[i]
             /\ timers'[Len(timers')].state = "waiting"
             /\ timers'[Len(timers')].kind = Head(raw_q).kind
             /\ timers'[Len(timers')].path = Head(raw_q).path
             /\ active_timers'[Head(raw_q).path] = Len(timers')
             /\ life'.deb = "running"]_vars

\* A timer has fired, and the next event of its path, which came after that,
\* has its timer waiting and registered.
C26_Witness ==
    \E i, j \in 1..Len(timers) :
        /\ i < j
        /\ timers[i].path = timers[j].path
        /\ timers[i].state = "fired"
        /\ ~timers[j].early
        /\ timers[j].state = "waiting"
        /\ active_timers[timers[j].path] = j

(***************************************************************************)
(* Claims about the dispatch loop's handler calls.                         *)
(***************************************************************************)
\* C27: whatever the order of raw events, timer expiries and cancellations,
\* at most one handler call for a path is executing at any time (the loop
\* makes one call at a time), and a call that is executing delays the next
\* event of its path, which stays in the channel.
C27_OneDispatch ==
    /\ [](\A path \in WatchPaths :
             Cardinality({i \in 1..Len(life.handling) : life.handling[i].path = path}) <= 1)
    /\ [](Len(life.handling) <= 1)
    /\ [][life.handling # <<>> =>
             \/ debounced_q' = debounced_q
             \/ \E ev \in [kind : {"Create", "Modify", "Remove"}, path : WatchPaths] :
                    debounced_q' = Append(debounced_q, ev)]_vars

\* A handler call for a path is executing while the next event of the same
\* path, debounced after it, waits in the channel.
C27_Witness ==
    /\ life.handling # <<>>
    /\ debounced_q # <<>>
    /\ Head(debounced_q).path = life.handling[1].path

(***************************************************************************)
(* Claims about the debouncer's map and the Create handler.                *)
(***************************************************************************)
\* C28: the debouncer's map holds a path if and only if a timer of the path
\* is pending: the entry is cleared when the timer fires.
C28_EntryCleared ==
    \A path \in WatchPaths :
        path \in DOMAIN active_timers <=>
            \E i \in 1..Len(timers) : timers[i].path = path /\ timers[i].state = "waiting"

\* The timers of the path that are live: neither cancelled nor fired
Live(path, tms) == {i \in 1..Len(tms) : tms[i].path = path /\ tms[i].state = "waiting"}

\* C29: at every moment a path has at most one live timer, and it is the one
\* the map holds for the path; the turn of the loop that starts a timer has
\* cancelled the path's previous one, so the new timer is the only live one;
\* and a timer that was cancelled stays cancelled and never emits: what is
\* emitted is the event of a timer that was live.
C29_OneLiveTimer ==
    /\ [](\A path \in WatchPaths :
             /\ Cardinality(Live(path, timers)) <= 1
             /\ \A i \in Live(path, timers) : active_timers[path] = i)
    /\ [][/\ Len(timers') > Len(timers) =>
                Live(timers'[Len(timers')].path, timers') = {Len(timers')}
          /\ \A i \in 1..Len(timers) :
                timers[i].state = "cancelled" => timers'[i].state = "cancelled"
          /\ Len(debounced_q') > Len(debounced_q) =>
                \E i \in 1..Len(timers) :
                    /\ timers[i].state = "waiting" /\ timers'[i].state = "fired"
                    /\ debounced_q' = Append(debounced_q,
                                             [kind |-> timers[i].kind, path |-> timers[i].path])]_vars

\* A timer was cancelled by the next event of its path, whose timer is live
\* at the same time as the timer of another path, and nothing was emitted.
C29_Witness ==
    \E i, j, k \in 1..Len(timers) :
        /\ i < j
        /\ timers[i].path = timers[j].path
        /\ timers[i].state = "cancelled"
        /\ timers[j].state = "waiting"
        /\ timers[k].path # timers[j].path
        /\ timers[k].state = "waiting"
        /\ debounced_q = <<>> /\ last_call = NoCall

\* C30: a Create event for a qualifying path that has no entry and whose
\* file cannot be opened leaves the index as it was, after the one exists
\* call, and the handler returns Ok.
C30_CreateVanished ==
    [][(/\ Dispatching("Create")
        /\ is_markdown_file(Head(debounced_q).path)
        /\ ~exists(index, Head(debounced_q).path)
        /\ Head(debounced_q).path \notin DOMAIN disk) =>
          /\ index' = index
          /\ last_call'.ports = <<"exists">>
          /\ last_call'.result = "Ok"
          /\ life'.disp = "running"]_vars

\* A Create was dispatched for a qualifying path without an entry whose file
\* was gone: exists was the only index call and nothing was indexed.
C30_Witness ==
    /\ last_call.kind = "Create"
    /\ is_markdown_file(last_call.path)
    /\ ~last_call.had
    /\ last_call.ports = <<"exists">>
    /\ last_call.result = "Ok"
    /\ ~last_call.changed
    /\ last_call.path \notin DOMAIN index

(***************************************************************************)
(* Claims about with_title.                                                *)
(***************************************************************************)
\* The heading line with_title writes for a title
heading_of(new_title) == <<"#", " ">> \o new_title

\* C31: with_title replaces only a first line that is a heading: a content
\* that does not begin with a heading keeps every line, after the new heading;
\* a content that does keeps the lines after its heading, in order; and the
\* files on disk are as they were.
C31_WithTitle ==
    \A i \in 1..Len(history) :
        history[i].op = "with_title" =>
            LET h == history[i]
                old == lines(h.original.content)
                new == lines(h.note.content)
            IN  /\ new # <<>> /\ new[1] = heading_of(h.new_title)
                /\ IF starts_with(h.original.content, "#")
                   THEN Tail(new) = Tail(old)
                   ELSE Tail(new) = old
                /\ DOMAIN disk = h.names
                /\ disk[TitlePath] = h.original.content

(***************************************************************************)
(* Claims about the kinds of events.                                       *)
(***************************************************************************)
\* The kinds of a file creation, a content modification and a removal
ContentKinds == {"Create", "Modify", "Remove"}

\* C32: only a creation, a content modification or a removal is forwarded to
\* the debouncer: every event on the raw channel, in a timer or on the
\* debounced channel is of one of these kinds, no event of another kind that
\* was reported has left a trace, and the dispatch loop has called a handler
\* only for Create, Modify and Remove.
C32_KindsForwarded ==
    /\ \A i \in 1..Len(raw_q) : raw_q[i].kind \in ContentKinds
    /\ \A i \in 1..Len(timers) : timers[i].kind \in ContentKinds
    /\ \A i \in 1..Len(debounced_q) : debounced_q[i].kind \in ContentKinds
    /\ last_call # NoCall =>
          /\ last_call.kind \in ContentKinds
          /\ handler_of(last_call.kind) # "none"

(***************************************************************************)
(* Claims about file changes before run.                                   *)
(***************************************************************************)
\* C33: a note created, written or deleted after the backfill scan of create
\* and before run is brought into the index: once the service runs and is
\* quiet, the index agrees with the disk for its path.
C33_GapCaughtUp ==
    Quiet => \A i \in 1..Len(history) : history[i].op = "gap" => Agrees(history[i].path)

Fired == {i \in 1..Len(timers) : timers[i].state = "fired"}

\* C35: the debouncer emits only what it received. A timer is spawned only
\* for the event received from the raw channel, with its kind and path; an
\* event is put on the debounced channel only by one waiting timer, which
\* sends its own kind and path and ends; a timer that has ended stays ended;
\* so the events emitted are never more than the events received.
C35_EmitsReceived ==
    /\ [](Len(debounced_q) <= Cardinality(Fired) /\ Cardinality(Fired) <= Len(timers))
    /\ [][/\ Len(timers') # Len(timers) =>
                /\ raw_q # <<>> /\ raw_q' = Tail(raw_q)
                /\ Len(timers') = Len(timers) + 1
                /\ timers'[Len(timers')].kind = Head(raw_q).kind
                /\ timers'[Len(timers')].path = Head(raw_q).path
          /\ Len(debounced_q') > Len(debounced_q) =>
                /\ Len(debounced_q') = Len(debounced_q) + 1
                /\ \E i \in 1..Len(timers) :
                      /\ timers[i].state = "waiting" /\ timers'[i].state = "fired"
                      /\ debounced_q'[Len(debounced_q')] =
                            [kind |-> timers[i].kind, path |-> timers[i].path]
                      /\ \A j \in 1..Len(timers) : j # i => timers'[j] = timers[j]
          /\ \A i \in 1..Len(timers) :
                /\ timers'[i].kind = timers[i].kind /\ timers'[i].path = timers[i].path
                /\ timers[i].state # "waiting" => timers'[i].state = timers[i].state]_vars

\* Two events were received for one path, the first a change of metadata: its
\* timer was cancelled, and the second timer's event is on the debounced channel.
C35_Witness ==
    \E i, j \in 1..Len(timers) :
        /\ i < j /\ timers[i].path = timers[j].path
        /\ timers[i].kind = "Modify(Metadata)" /\ timers[i].state = "cancelled"
        /\ timers[j].state = "fired"
        /\ debounced_q = <<[kind |-> timers[j].kind, path |-> timers[j].path]>>

(***************************************************************************)
(* Claims about the names of created notes.                                *)
(***************************************************************************)
\* C36: the file create writes has a name of more than the '.md' suffix, and
\* a name the dispatcher's filter and the backfill scan's filter accept.
C36_Indexable ==
    \A n \in notes :
        /\ n.path \in DOMAIN disk
        /\ Len(file_name(n.path)) > Len(DotMd)
        /\ is_markdown_file(n.path)
        /\ scan_accepts(n.path)

(***************************************************************************)
(* Claims about concurrent create calls.                                   *)
(***************************************************************************)
\* C37: two create calls with one title that have both returned, however
\* they interleaved, have returned distinct paths, and the file of each holds
\* the content that call wrote.
C37_RaceFree ==
    \A i, j \in 1..Len(history) :
        (/\ i < j
         /\ history[i].op = "write" /\ history[j].op = "write"
         /\ history[i].title = history[j].title) =>
            /\ history[i].note.path # history[j].note.path
            /\ disk[history[i].note.path] = history[i].note.content
            /\ disk[history[j].note.path] = history[j].note.content

(***************************************************************************)
(* Claims about update_note.                                               *)
(***************************************************************************)
\* C38: the note update_note returns agrees with the disk, whichever of the
\* title and the content were given: the file at its path, opened, has the
\* title and the content of the note returned.
C38_UpdateAgrees ==
    (history # <<>> /\ history[Len(history)].op = "update_note") =>
        LET h == history[Len(history)]
        IN  /\ h.note.path \in DOMAIN disk
            /\ open(h.note.path, disk).content = h.note.content
            /\ open(h.note.path, disk).title = h.note.title

\* The note's file is whole at the old path, or at the new one.
HoldsOld ==
    /\ save_op.original.path \in DOMAIN disk
    /\ disk[save_op.original.path] = save_op.original.content
HoldsNew ==
    /\ save_op.final.path \in DOMAIN disk
    /\ disk[save_op.final.path] = save_op.final.content

\* C39: in update_note the new file is whole before the old file is removed:
\* at every instant of the call the old path or the new path holds the note;
\* the old file goes only in a step that starts with the new file whole; and
\* when the save fails the old file is in place, with the content it had, and
\* nothing is at the new path.
C39_WriteBeforeRemove ==
    /\ [](/\ save_op.pc \in {"writing", "saved"} => (HoldsOld \/ HoldsNew)
          /\ save_op.pc = "writing" => HoldsOld)
    /\ [][/\ \A q \in DOMAIN disk \ DOMAIN disk' :
                q # save_op.tmp =>
                    /\ save_op.pc = "saved" /\ q = save_op.original.path
                    /\ HoldsNew
          /\ (save_op.pc = "saved" /\ save_op'.pc = "done") => HoldsNew'
          /\ (save_op.pc = "writing" /\ save_op'.pc = "failed") =>
                /\ HoldsOld'
                /\ save_op.final.path # save_op.original.path =>
                      save_op.final.path \notin DOMAIN disk']_vars

\* A title was given: the new file is whole at its new path while the old file
\* is still at the old one.
C39_Witness ==
    /\ save_op.pc = "saved"
    /\ save_op.new_title # None
    /\ save_op.final.path # save_op.original.path
    /\ HoldsOld /\ HoldsNew

(***************************************************************************)
(* Claims about what the backfill scan leaves alone.                       *)
(***************************************************************************)
\* C40: the backfill scan only adds entries. At every point of the scan, and
\* however it ends, each entry the index held before it is there with the
\* title and the content it had, also when the file has other content by now
\* or is gone; and no step of the scan changes or removes an entry.
C40_ScanOnlyAdds ==
    /\ [](scan.pc # "none" =>
             \A q \in DOMAIN scan.before : q \in DOMAIN index /\ index[q] = scan.before[q])
    /\ [][\A q \in DOMAIN index : q \in DOMAIN index' /\ index'[q] = index[q]]_vars

\* The scan is over and has added an entry; the entry the index held before
\* it, whose file is gone, is still there.
C40_Witness ==
    /\ scan.pc = "done"
    /\ scan.before = StaleIndex
    /\ DOMAIN scan.before \cap DOMAIN disk = {}
    /\ index # scan.before
    /\ \A q \in DOMAIN scan.before : index[q] = StaleIndex[q]

====
